---- MODULE Spec2Model ----
(***************************************************************************)
(* Model of parse_analysis_response (leaf-disease-detection/main.py), the  *)
(* function that turns the vision model's free-text reply into the        *)
(* structured analysis record; of analyze_leaf, the handler of POST       *)
(* /analyze that calls it (main.py); and of the session of the web page   *)
(* that keeps the history of the analyses (app.py).                       *)
(*                                                                         *)
(* A Python str is modelled as a sequence of one-character strings, so    *)
(* that strip, split, startswith, replace and slicing are computed        *)
(* character by character as Python computes them.                        *)
(***************************************************************************)
EXTENDS Integers, Sequences, FiniteSets, TLC

VARIABLES
    response_text,  \* the argument of parse_analysis_response
    lines,          \* response_text.strip().split('\n')
    i,              \* position of the for loop in lines (1-based)
    analysis,       \* the dict under construction / returned
    pc              \* position in the function body

VARIABLES
    calls           \* the locals of each of several invocations in progress

\* analyze_leaf, the handler of POST /analyze
VARIABLES
    api_pc,         \* position in the handler
    content_type,   \* file.content_type of the upload
    gateway_called, \* client.chat.completions.create has been called
    exc,            \* the exception raised inside the try block, if any
    http_status,    \* status code of the reply (0: no reply yet)
    http_detail     \* detail of an error reply

\* the session of the web page (app.py)
VARIABLES
    analysis_history, \* st.session_state.analysis_history
    current_result,   \* st.session_state.current_result (<<>>: not set)
    clicked,          \* the button pressed in the last run of the script
    response,         \* what the last POST /analyze came to
    result,           \* what analyze_image returned last (<<>>: None)
    now               \* the requests sent so far; the clock of the timestamps

vars == <<response_text, lines, i, analysis, pc>>

apiVars == <<api_pc, content_type, gateway_called, exc, http_status, http_detail>>

uiVars == <<analysis_history, current_result, clicked, response, result, now>>

\* the state outside the invocation of vars
others == <<calls, apiVars, uiVars>>

-----------------------------------------------------------------------------
(* Bounds of the checked input space.                                      *)

\* longest sequence of lines drawn from CorePool
MaxLines == 3
\* longest sequence of lines drawn from EdgePool
MaxEdgeLines == 2
\* the long inputs have DescLimit - 1 .. DescLimit + MaxOver characters of filler
MaxOver == 3

-----------------------------------------------------------------------------
(* Python string primitives.                                               *)

\* the characters str.strip() removes, as far as the inputs below use them
\* (Python removes every Unicode whitespace character)
Whitespace == {" ", "\t", "\n", "\r"}

RECURSIVE LStrip(_)
LStrip(s) ==
    IF s = <<>> \/ Head(s) \notin Whitespace THEN s ELSE LStrip(Tail(s))

RECURSIVE RStrip(_)
RStrip(s) ==
    IF s = <<>> \/ s[Len(s)] \notin Whitespace THEN s
    ELSE RStrip(SubSeq(s, 1, Len(s) - 1))

\* Strip with a fault: only the leading whitespace is removed (lstrip)
StripLeadingOnly(s) == LStrip(s)

\* str.strip()
Strip(s) == RStrip(LStrip(s))

\* StartsWith with a fault: the prefix may occur anywhere (the `in` operator)
ContainsAnywhere(s, p) ==
    \E k \in 1..(Len(s) - Len(p) + 1) : SubSeq(s, k, k + Len(p) - 1) = p

\* str.startswith(p)
StartsWith(s, p) == Len(s) >= Len(p) /\ SubSeq(s, 1, Len(p)) = p

\* the index of the first occurrence of character c in s; 0 when there is none
FirstIndex(s, c) ==
    IF \E k \in 1..Len(s) : s[k] = c
    THEN CHOOSE k \in 1..Len(s) : s[k] = c /\ \A j \in 1..(k - 1) : s[j] /= c
    ELSE 0

RECURSIVE Split(_, _)
\* str.split(c) for a one-character separator: always at least one segment
Split(s, c) ==
    LET k == FirstIndex(s, c)
    IN  IF k = 0 THEN <<s>>
        ELSE <<SubSeq(s, 1, k - 1)>> \o Split(SubSeq(s, k + 1, Len(s)), c)

RECURSIVE RemoveAll(_, _)
\* str.replace(old, ""): every non-overlapping occurrence, left to right
RemoveAll(s, old) ==
    IF Len(s) < Len(old) THEN s
    ELSE IF SubSeq(s, 1, Len(old)) = old
         THEN RemoveAll(SubSeq(s, Len(old) + 1, Len(s)), old)
         ELSE <<Head(s)>> \o RemoveAll(Tail(s), old)

\* s[:n]
Take(s, n) == SubSeq(s, 1, IF Len(s) < n THEN Len(s) ELSE n)

-----------------------------------------------------------------------------
(* The tags, the fields and the literals of the function.                  *)

TagDiseaseName == <<"D","I","S","E","A","S","E"," ","N","A","M","E",":">>
TagConfidence  == <<"C","O","N","F","I","D","E","N","C","E",":">>
TagDescription == <<"D","E","S","C","R","I","P","T","I","O","N",":">>
TagSymptoms    == <<"S","Y","M","P","T","O","M","S",":">>
TagTreatment   == <<"T","R","E","A","T","M","E","N","T",":">>
TagPrevention  == <<"P","R","E","V","E","N","T","I","O","N",":">>
TagSeverity    == <<"S","E","V","E","R","I","T","Y",":">>

\* the fields in the order of the if/elif chain
FieldOrder == <<"disease_name", "confidence", "description", "symptoms",
                "treatment", "prevention", "severity">>

Fields == {FieldOrder[k] : k \in DOMAIN FieldOrder}

ListFields == {"symptoms", "treatment", "prevention"}

ScalarFields == Fields \ ListFields

TagOf(f) ==
    CASE f = "disease_name" -> TagDiseaseName
      [] f = "confidence"   -> TagConfidence
      [] f = "description"  -> TagDescription
      [] f = "symptoms"     -> TagSymptoms
      [] f = "treatment"    -> TagTreatment
      [] f = "prevention"   -> TagPrevention
      [] f = "severity"     -> TagSeverity

Unknown == <<"U","n","k","n","o","w","n">>
Medium == <<"M","e","d","i","u","m">>
Ellipsis == <<".", ".", ".">>

\* the three one-item fallback lists
SymptomsFallback ==
    << <<"A","n","a","l","y","s","i","s"," ","c","o","m","p","l","e","t",
       "e","d"," ","-"," ","c","h","e","c","k"," ","d","e","s","c","r","i",
       "p","t","i","o","n"," ","f","o","r"," ","d","e","t","a","i","l","s">> >>

TreatmentFallback ==
    << <<"C","o","n","s","u","l","t"," ","w","i","t","h"," ","a","g","r",
       "i","c","u","l","t","u","r","a","l"," ","e","x","p","e","r","t"," ",
       "f","o","r"," ","s","p","e","c","i","f","i","c"," ","t","r","e","a",
       "t","m","e","n","t">> >>

PreventionFallback ==
    << <<"M","a","i","n","t","a","i","n"," ","p","r","o","p","e","r"," ",
       "p","l","a","n","t"," ","h","y","g","i","e","n","e"," ","a","n","d",
       " ","m","o","n","i","t","o","r","i","n","g">> >>

\* response_text[:200]
DescLimit == 200

-----------------------------------------------------------------------------
(* parse_analysis_response, operator by operator.                          *)

\* InitialAnalysis with a fault: the defaults of confidence and severity swapped
InitialAnalysisSwapped ==
    [disease_name |-> Unknown,
     confidence   |-> Unknown,
     description  |-> <<>>,
     symptoms     |-> <<>>,
     treatment    |-> <<>>,
     prevention   |-> <<>>,
     severity     |-> Medium]

\* the dict literal the function starts from
InitialAnalysis ==
    [disease_name |-> Unknown,
     confidence   |-> Medium,
     description  |-> <<>>,
     symptoms     |-> <<>>,
     treatment    |-> <<>>,
     prevention   |-> <<>>,
     severity     |-> Unknown]

\* response_text.strip().split('\n')
SplitLines(text) == Split(Strip(text), "\n")

\* the field of the first branch of the if/elif chain the stripped line
\* takes, "none" when it takes no branch
MatchedField(line) ==
    LET ks == {k \in DOMAIN FieldOrder : StartsWith(line, TagOf(FieldOrder[k]))}
    IN  IF ks = {} THEN "none"
        ELSE FieldOrder[CHOOSE k \in ks : \A j \in ks : k <= j]

\* line.replace(tag, "").strip()
TagValue(line, tag) == Strip(RemoveAll(line, tag))

\* [s.strip() for s in text.split(';') if s.strip()]
SplitItems(text) ==
    LET segs == Split(text, ";")
        trimmed == [k \in DOMAIN segs |-> Strip(segs[k])]
    IN  SelectSeq(trimmed, LAMBDA s : s /= <<>>)

\* the value a branch assigns to its field from the stripped line
FieldValue(f, line) ==
    IF f \in ListFields
    THEN SplitItems(TagValue(line, TagOf(f)))
    ELSE TagValue(line, TagOf(f))

\* Assign with a fault: a first-match guard, the field is written once only
AssignIfUnset(a, f, v) ==
    IF a[f] = InitialAnalysis[f] THEN [a EXCEPT ![f] = v] ELSE a

\* analysis[f] = v
Assign(a, f, v) == [a EXCEPT ![f] = v]

\* one iteration of the for loop, on one element of lines
ScanStep(a, rawline) ==
    LET line == Strip(rawline)
    IN  IF line = <<>> THEN a
        ELSE LET f == MatchedField(line)
             IN  IF f = "none" THEN a ELSE Assign(a, f, FieldValue(f, line))

\* DescriptionFallback with a fault: the stripped text is truncated
DescriptionFallbackStripped(a, text, ls) ==
    IF a.description = <<>> /\ Len(ls) > 0
    THEN [a EXCEPT !.description = Take(Strip(text), DescLimit) \o Ellipsis]
    ELSE a

\* if not analysis["description"] and len(lines) > 0: ...
DescriptionFallback(a, text, ls) ==
    IF a.description = <<>> /\ Len(ls) > 0
    THEN [a EXCEPT !.description = Take(text, DescLimit) \o Ellipsis]
    ELSE a

\* ListFallback with a fault: the emptiness test is lost
ListFallbackAlways(a, f, fallback) == [a EXCEPT ![f] = fallback]

\* if not analysis[f]: analysis[f] = [<the fallback item>]
ListFallback(a, f, fallback) ==
    IF a[f] = <<>> THEN [a EXCEPT ![f] = fallback] ELSE a

RECURSIVE ScanFrom(_, _, _)
\* the for loop over ls from position k on, starting from the record a
ScanFrom(a, ls, k) ==
    IF k > Len(ls) THEN a ELSE ScanFrom(ScanStep(a, ls[k]), ls, k + 1)

\* the record at the end of the for loop
ScanAll(text) == ScanFrom(InitialAnalysis, SplitLines(text), 1)

\* the record the function returns
ParseResult(text) ==
    LET a0 == ScanAll(text)
        a1 == DescriptionFallback(a0, text, SplitLines(text))
        a2 == ListFallback(a1, "symptoms", SymptomsFallback)
        a3 == ListFallback(a2, "treatment", TreatmentFallback)
    IN  ListFallback(a3, "prevention", PreventionFallback)

-----------------------------------------------------------------------------
(* The inputs.                                                             *)

RECURSIVE JoinLines(_)
\* the lines joined with "\n"
JoinLines(ls) ==
    IF ls = <<>> THEN <<>>
    ELSE IF Len(ls) = 1 THEN ls[1]
    ELSE ls[1] \o <<"\n">> \o JoinLines(Tail(ls))

SeqsUpTo(S, n) == UNION {[1..k -> S] : k \in 0..n}

UpperLetters == <<"A","C","D","E","F","I","M","N","O","P","R","S","T","V","Y">>
LowerLetters == <<"a","c","d","e","f","i","m","n","o","p","r","s","t","v","y">>

LowerChar(c) ==
    IF \E k \in DOMAIN UpperLetters : UpperLetters[k] = c
    THEN LowerLetters[CHOOSE k \in DOMAIN UpperLetters : UpperLetters[k] = c]
    ELSE c

Lower(s) == [k \in DOMAIN s |-> LowerChar(s[k])]

\* the field after f in the if/elif chain (cyclically)
NextField(f) ==
    LET k == CHOOSE j \in DOMAIN FieldOrder : FieldOrder[j] = f
    IN  FieldOrder[(k % Len(FieldOrder)) + 1]

\* lines about one tag: an empty value, a value, a value in whitespace, the
\* tag in lower case, a whitespace-only line, a line of another tag
CorePool(f) ==
    LET T == TagOf(f)
    IN  { T,
          T \o <<" ", "a">>,
          <<" ">> \o T \o <<"\t", "b", ";", "a", " ">>,
          Lower(T) \o <<" ", "c">>,
          <<"\t">>,
          TagOf(NextField(f)) \o <<" ", "c">> }

\* further lines about one tag: only delimiters, the tag again inside the
\* value, the tag in mid-line only, no space after the colon, a continuation
EdgePool(f) ==
    LET T == TagOf(f)
    IN  { T \o <<" ", "a", ";", "b">>,
          T \o <<" ", ";", ";", ";">>,
          T \o <<" ", "b", ";", " ">> \o T \o <<" ", "a">>,
          <<"c", " ">> \o T \o <<" ", "b">>,
          T \o <<"a", " ", "b", ";", " ", ";", "c">>,
          <<" ", "c", ";", "a">>,
          <<>> }

FreeInputs ==
    UNION { {JoinLines(ls) : ls \in SeqsUpTo(CorePool(f), MaxLines)}
            \cup {JoinLines(ls) : ls \in SeqsUpTo(EdgePool(f), MaxEdgeLines)}
          : f \in Fields }

\* the example line of the documentation
ExampleLine ==
    TagSymptoms \o <<" ","y","e","l","l","o","w"," ","s","p","o","t","s",";",
                     " ","w","i","l","t","i","n","g",";"," "," ",";"," ",
                     "c","u","r","l","i","n","g">>

\* the two values a well-formed reply gives field f: plain, and with the
\* tag text again inside the value
WellFormedValues(f) ==
    << <<" ", "a", ";", " ", "b", " ">>,
       <<" ", "b", ";", " ">> \o TagOf(f) \o <<" ", "a">> >>

\* replies with each of the seven tags on one line, in the prompt's order
WellFormedInputs ==
    { JoinLines([k \in DOMAIN FieldOrder |->
                    TagOf(FieldOrder[k])
                    \o WellFormedValues(FieldOrder[k])[v[FieldOrder[k]]]])
      : v \in [Fields -> {1, 2}] }

Filler(n) == [k \in 1..n |-> "x"]

\* replies around the 200-character limit of the description fallback
LongInputs ==
    UNION { { Filler(n),
              <<" ", "\n">> \o Filler(n),
              TagSeverity \o <<" ", "a", "\n">> \o Filler(n),
              TagDescription \o <<" ", "a", "\n">> \o Filler(n),
              TagDescription \o <<"\n">> \o Filler(n) }
          : n \in (DescLimit - 1)..(DescLimit + MaxOver) }

Inputs == FreeInputs \cup WellFormedInputs \cup LongInputs \cup {ExampleLine}

-----------------------------------------------------------------------------
(* The function as a state machine.                                        *)

\* no invocation of the function is in progress in vars
ParserIdle ==
    /\ response_text = <<>>
    /\ lines = <<>>
    /\ i = 0
    /\ analysis = InitialAnalysis
    /\ pc = "idle"

\* no exception is pending
NoException == [kind |-> "none", text |-> <<>>]

\* no request is being handled
ApiIdle ==
    /\ api_pc = "idle"
    /\ content_type = <<>>
    /\ gateway_called = FALSE
    /\ exc = NoException
    /\ http_status = 0
    /\ http_detail = <<>>

\* no POST /analyze has been sent
NoResponse == [kind |-> "none", status |-> 0, body |-> <<>>]

\* the page has not been opened
UiIdle ==
    /\ analysis_history = <<>>
    /\ current_result = <<>>
    /\ clicked = "none"
    /\ response = NoResponse
    /\ result = <<>>
    /\ now = 0

Init ==
    /\ response_text \in Inputs
    /\ lines = <<>>
    /\ i = 0
    /\ analysis = InitialAnalysis
    /\ pc = "start"
    /\ calls = <<>>
    /\ ApiIdle
    /\ UiIdle

\* lines = response_text.strip().split('\n'); analysis = {...}
Start ==
    /\ pc = "start"
    /\ lines' = SplitLines(response_text)
    /\ analysis' = InitialAnalysis
    /\ i' = 1
    /\ pc' = "scan"
    /\ UNCHANGED response_text
    /\ UNCHANGED others

\* one iteration of `for line in lines`
ScanLine ==
    /\ pc = "scan"
    /\ i <= Len(lines)
    /\ analysis' = ScanStep(analysis, lines[i])
    /\ i' = i + 1
    /\ UNCHANGED <<response_text, lines, pc>>
    /\ UNCHANGED others

\* the for loop is exhausted
ScanEnd ==
    /\ pc = "scan"
    /\ i > Len(lines)
    /\ pc' = "fallback_description"
    /\ UNCHANGED <<response_text, lines, i, analysis>>
    /\ UNCHANGED others

FallbackDescription ==
    /\ pc = "fallback_description"
    /\ analysis' = DescriptionFallback(analysis, response_text, lines)
    /\ pc' = "fallback_symptoms"
    /\ UNCHANGED <<response_text, lines, i>>
    /\ UNCHANGED others

FallbackSymptoms ==
    /\ pc = "fallback_symptoms"
    /\ analysis' = ListFallback(analysis, "symptoms", SymptomsFallback)
    /\ pc' = "fallback_treatment"
    /\ UNCHANGED <<response_text, lines, i>>
    /\ UNCHANGED others

FallbackTreatment ==
    /\ pc = "fallback_treatment"
    /\ analysis' = ListFallback(analysis, "treatment", TreatmentFallback)
    /\ pc' = "fallback_prevention"
    /\ UNCHANGED <<response_text, lines, i>>
    /\ UNCHANGED others

\* the last fallback, and `return analysis`
FallbackPrevention ==
    /\ pc = "fallback_prevention"
    /\ analysis' = ListFallback(analysis, "prevention", PreventionFallback)
    /\ pc' = "done"
    /\ UNCHANGED <<response_text, lines, i>>
    /\ UNCHANGED others

Next ==
    \/ Start
    \/ ScanLine
    \/ ScanEnd
    \/ FallbackDescription
    \/ FallbackSymptoms
    \/ FallbackTreatment
    \/ FallbackPrevention

\* one invocation of the function, alone
Spec == Init /\ [][Next]_<<vars, others>>

-----------------------------------------------------------------------------
(* Vocabulary of the properties, defined apart from the operators above.   *)

\* s without its leading and trailing whitespace
Trim(s) ==
    IF \A k \in 1..Len(s) : s[k] \in Whitespace THEN <<>>
    ELSE SubSeq(s,
                CHOOSE k \in 1..Len(s) :
                    s[k] \notin Whitespace
                    /\ \A j \in 1..(k - 1) : s[j] \in Whitespace,
                CHOOSE k \in 1..Len(s) :
                    s[k] \notin Whitespace
                    /\ \A j \in (k + 1)..Len(s) : s[j] \in Whitespace)

\* the trimmed line begins with the tag of field f
Carries(f, rawline) ==
    LET l == Trim(rawline)
        T == TagOf(f)
    IN  Len(l) >= Len(T) /\ \A k \in 1..Len(T) : l[k] = T[k]

Tagged(rawline) == \E f \in Fields : Carries(f, rawline)

\* what follows the leading tag of f on the trimmed line, trimmed
AfterTag(f, rawline) ==
    LET l == Trim(rawline)
    IN  Trim(SubSeq(l, Len(TagOf(f)) + 1, Len(l)))

KeepSegment(cur) == IF Trim(cur) = <<>> THEN <<>> ELSE <<Trim(cur)>>

RECURSIVE SegmentsFrom(_, _)
SegmentsFrom(s, cur) ==
    IF s = <<>> THEN KeepSegment(cur)
    ELSE IF Head(s) = ";" THEN KeepSegment(cur) \o SegmentsFrom(Tail(s), <<>>)
    ELSE SegmentsFrom(Tail(s), Append(cur, Head(s)))

\* the text cut at every ';', each piece trimmed, the empty pieces dropped
Segments(s) == SegmentsFrom(s, <<>>)

\* the positions of the lines that carry the tag of f
LinesWith(f) == {k \in DOMAIN lines : Carries(f, lines[k])}

\* the positions of the lines that carry the tag of f and were scanned
ScannedWith(f) == {k \in LinesWith(f) : k < i}

Last(S) == CHOOSE k \in S : \A j \in S : k >= j

FirstChars(s, n) == [k \in 1..(IF Len(s) < n THEN Len(s) ELSE n) |-> s[k]]

IdentityFields == {"disease_name", "confidence", "severity"}

-----------------------------------------------------------------------------
(* C1: for every input, the returned record has symptoms, treatment and    *)
(* prevention non-empty lists and disease_name, confidence and severity    *)
(* non-empty strings, also when a scalar tag line carries an empty value.  *)
C1_AllFieldsPopulated ==
    pc = "done" =>
        /\ \A f \in ListFields : analysis[f] /= <<>>
        /\ \A f \in IdentityFields : analysis[f] /= <<>>

(* C2: the empty string yields disease_name "Unknown", confidence         *)
(* "Medium", severity "Unknown", description "" and the three one-item     *)
(* fallback lists.                                                         *)
C2_EmptyInputRecord ==
    (pc = "done" /\ response_text = <<>>) =>
        analysis = [disease_name |-> Unknown,
                    confidence   |-> Medium,
                    description  |-> <<>>,
                    symptoms     |-> SymptomsFallback,
                    treatment    |-> TreatmentFallback,
                    prevention   |-> PreventionFallback,
                    severity     |-> Unknown]

\* each of the seven tags is the prefix of exactly one line
EachTagOnce == \A f \in Fields : Cardinality(LinesWith(f)) = 1

(* C3: when each of the seven tags is the prefix of exactly one line, each *)
(* scalar field is the text after the leading tag of its line, trimmed and *)
(* otherwise verbatim, and each list field is that text split on ';' with  *)
(* the segments trimmed.                                                   *)
C3_WellFormedVerbatim ==
    (pc = "done" /\ EachTagOnce) =>
        \A f \in Fields :
            LET rest == AfterTag(f, lines[Last(LinesWith(f))])
            IN  analysis[f] = IF f \in ListFields THEN Segments(rest) ELSE rest

(* C4: during and after the scan, a field whose tag was carried by some    *)
(* scanned line holds the value assigned from the last such line, whatever *)
(* the earlier ones assigned (an empty last value included); a field whose *)
(* tag no scanned line carried still holds its initial value.              *)
C4_LastOccurrenceWins ==
    pc \in {"scan", "fallback_description"} =>
        \A f \in Fields :
            IF ScannedWith(f) = {}
            THEN analysis[f] = InitialAnalysis[f]
            ELSE analysis[f] = FieldValue(f, Trim(lines[Last(ScannedWith(f))]))

\* what the line at position k of lines gives field f, in the vocabulary above
ValueAt(f, k) ==
    IF f \in ListFields THEN Segments(AfterTag(f, lines[k]))
    ELSE AfterTag(f, lines[k])

\* the scan is over; a line gave a field a value, a later line of the same
\* tag gave it the empty value, and the field is empty
C4_Witness ==
    /\ pc = "fallback_description"
    /\ \E f \in Fields :
        \E j, k \in LinesWith(f) :
            /\ j < k
            /\ k = Last(LinesWith(f))
            /\ ValueAt(f, j) /= <<>>
            /\ ValueAt(f, k) = <<>>
            /\ analysis[f] = <<>>

(* C5: the step after the scan sets an empty description to the first 200  *)
(* characters of the raw, untrimmed text followed by "...", whenever the   *)
(* raw text is non-empty; a text of more than 200 characters with no       *)
(* DESCRIPTION: line gets a description of exactly 203 characters; a       *)
(* non-empty description is left unchanged, by this step and by the later  *)
(* ones.                                                                   *)
C5_DescriptionFallback ==
    [][ /\ pc = "fallback_description" =>
            /\ (analysis.description = <<>> /\ response_text /= <<>>) =>
                   analysis'.description =
                       FirstChars(response_text, 200) \o <<".", ".", ".">>
            /\ (LinesWith("description") = {} /\ Len(response_text) > 200) =>
                   Len(analysis'.description) = 203
            /\ analysis.description /= <<>> =>
                   analysis'.description = analysis.description
        /\ pc \in {"fallback_symptoms", "fallback_treatment", "fallback_prevention"} =>
            analysis'.description = analysis.description
      ]_vars

\* the description fallback has run on a text of more than 200 characters
\* that starts with whitespace and has no DESCRIPTION: line
C5_Witness ==
    /\ pc = "fallback_symptoms"
    /\ Len(response_text) > 200
    /\ response_text[1] \in Whitespace
    /\ LinesWith("description") = {}
    /\ Len(analysis.description) = 203
    /\ analysis.description[1] = response_text[1]

\* the fallback step of a list field, and the one-item list it installs
FallbackStepOf(f) ==
    CASE f = "symptoms"   -> "fallback_symptoms"
      [] f = "treatment"  -> "fallback_treatment"
      [] f = "prevention" -> "fallback_prevention"

FallbackListOf(f) ==
    CASE f = "symptoms"   -> SymptomsFallback
      [] f = "treatment"  -> TreatmentFallback
      [] f = "prevention" -> PreventionFallback

\* the labels that follow the fallback step of list field f
AfterFallbackOf(f) ==
    CASE f = "symptoms"   -> {"fallback_treatment", "fallback_prevention"}
      [] f = "treatment"  -> {"fallback_prevention"}
      [] f = "prevention" -> {}

(* C6: the fallback step of a list field replaces an empty list by the     *)
(* field's one-item fallback list and leaves a non-empty list unchanged;   *)
(* no other step of the fallback pass changes the field, so the result     *)
(* holds the fallback exactly when the scan left the field empty.          *)
C6_ListFallback ==
    [][ \A f \in ListFields :
            /\ pc = FallbackStepOf(f) =>
                /\ analysis[f] = <<>> => analysis'[f] = FallbackListOf(f)
                /\ analysis[f] /= <<>> => analysis'[f] = analysis[f]
            /\ pc \in {"fallback_description"} \cup AfterFallbackOf(f) =>
                analysis'[f] = analysis[f]
      ]_vars

\* the function has returned; the last SYMPTOMS: line held only delimiters,
\* an earlier one held items, and symptoms is the fallback list; no line
\* carried TREATMENT:, and treatment is the fallback list
C6_Witness ==
    /\ pc = "done"
    /\ \E j, k \in LinesWith("symptoms") :
        /\ j < k
        /\ k = Last(LinesWith("symptoms"))
        /\ ValueAt("symptoms", j) /= <<>>
        /\ AfterTag("symptoms", lines[k]) = <<";", ";", ";">>
    /\ analysis.symptoms = SymptomsFallback
    /\ LinesWith("treatment") = {}
    /\ analysis.treatment = TreatmentFallback

(* C7: a line that carries the tag of a list field gives the field the    *)
(* text after the tag split on ';', every segment trimmed, the empty       *)
(* segments dropped, in their order on the line; the line                  *)
(* 'SYMPTOMS: yellow spots; wilting;  ; curling' gives                     *)
(* ['yellow spots', 'wilting', 'curling'].                                 *)
C7_ListLineSplit ==
    /\ (pc = "scan" /\ i > 1) =>
           \A f \in ListFields :
               Carries(f, lines[i - 1]) => analysis[f] = ValueAt(f, i - 1)
    /\ (pc = "done" /\ response_text = ExampleLine) =>
           analysis.symptoms =
               << <<"y","e","l","l","o","w"," ","s","p","o","t","s">>,
                  <<"w","i","l","t","i","n","g">>,
                  <<"c","u","r","l","i","n","g">> >>

\* the lines of the raw text
RawLines == Split(response_text, "\n")

\* the positions of the untagged lines that lie between two tagged lines
Between(ls) ==
    {k \in DOMAIN ls :
        /\ ~Tagged(ls[k])
        /\ \E j \in 1..(k - 1) : Tagged(ls[j])
        /\ \E j \in (k + 1)..Len(ls) : Tagged(ls[j])}

RECURSIVE DropAt(_, _, _)
\* ls without the lines at the positions D, from position k on
DropAt(ls, D, k) ==
    IF k > Len(ls) THEN <<>>
    ELSE (IF k \in D THEN <<>> ELSE <<ls[k]>>) \o DropAt(ls, D, k + 1)

\* the raw text without the lines at the positions D
Without(D) == JoinLines(DropAt(RawLines, D, 1))

\* one pass of the loop on an untagged line changes no field, and on a
\* tagged line changes no field but the line's own
FrameStep ==
    (pc = "scan" /\ i <= Len(lines)) =>
        /\ ~Tagged(lines[i]) => analysis' = analysis
        /\ \A f \in Fields :
               Carries(f, lines[i]) =>
                   \A g \in Fields \ {f} : analysis'[g] = analysis[g]

\* the fields whose tag some line carries
TaggedFields == {f \in Fields : LinesWith(f) /= {}}

\* the scan left the description empty, so that the fallback fills it
DescriptionFromRawText == ScanAll(response_text).description = <<>>

\* the returned fields fs are those of the text without any of its
\* untagged lines between tagged lines
ResultWithoutInserted(fs) ==
    pc = "done" =>
        \A D \in (SUBSET Between(RawLines)) \ {{}} :
            \A f \in fs : analysis[f] = ParseResult(Without(D))[f]

\* the record the scan leaves is that of the text without any of its
\* untagged lines between tagged lines
ScanWithoutInserted ==
    pc = "fallback_description" =>
        \A D \in (SUBSET Between(RawLines)) \ {{}} :
            analysis = ScanAll(Without(D))

(* C8 as stated: an untagged line changes no field and a tagged line only  *)
(* its own, and removing the untagged lines between tagged lines changes   *)
(* no tagged field of the result.                                          *)
C8_AnyTaggedFieldKept ==
    /\ [][FrameStep]_vars
    /\ []ResultWithoutInserted(TaggedFields)

(* C8, amended: an untagged line (a tag in another letter case, a tag in   *)
(* mid-line, a continuation, a blank line) changes no field and a tagged   *)
(* line only its own; removing the untagged lines between tagged lines     *)
(* changes neither the record the scan leaves nor any tagged field of the  *)
(* result, except a description the scan left empty, which the fallback    *)
(* fills from the raw text.                                                *)
C8_UnrecognizedLinesIgnored ==
    /\ [][FrameStep]_vars
    /\ []ScanWithoutInserted
    /\ []ResultWithoutInserted(
             IF DescriptionFromRawText THEN TaggedFields \ {"description"}
             ELSE TaggedFields)

\* the function has returned a record whose tagged fields have values, from
\* a text with an untagged line (a tag in lower case) between tagged lines
C8_Witness ==
    /\ pc = "done"
    /\ \E k \in Between(RawLines) : \E f \in Fields :
           /\ Len(RawLines[k]) >= Len(TagOf(f))
           /\ SubSeq(RawLines[k], 1, Len(TagOf(f))) = Lower(TagOf(f))
    /\ Cardinality(TaggedFields) = 2
    /\ \A f \in TaggedFields : analysis[f] = ValueAt(f, Last(LinesWith(f)))
    /\ \A f \in TaggedFields : analysis[f] /= <<>>

\* the line with the whitespace before its tag, between the colon and the
\* value, and after the value replaced by lead, mid and trail; an untagged
\* line as it is
Respace(rawline, lead, mid, trail) ==
    IF Tagged(rawline)
    THEN LET f == CHOOSE g \in Fields : Carries(g, rawline)
         IN  lead \o TagOf(f) \o mid \o AfterTag(f, rawline) \o trail
    ELSE rawline

\* the whitespace put around the parts of a tagged line
Paddings == { <<>>, <<"\t", " ">> }

RECURSIVE CompactLines(_, _)
\* ls from position k on: the whitespace-only lines removed, the tagged
\* lines without any whitespace around the tag and the value
CompactLines(ls, k) ==
    IF k > Len(ls) THEN <<>>
    ELSE (IF Trim(ls[k]) = <<>> THEN <<>>
          ELSE <<Respace(ls[k], <<>>, <<>>, <<>>)>>)
         \o CompactLines(ls, k + 1)

RECURSIVE PaddedLines(_, _)
\* ls from position k on: a whitespace-only line put before every line, the
\* tagged lines with whitespace around the tag and the value
PaddedLines(ls, k) ==
    IF k > Len(ls) THEN << <<" ", "\t">> >>
    ELSE << <<"\t">>, Respace(ls[k], <<" ", "\t">>, <<"\t", " ">>, <<" ">>) >>
         \o PaddedLines(ls, k + 1)

\* the raw text with its whitespace removed, and added
Respacings ==
    { JoinLines(CompactLines(RawLines, 1)), JoinLines(PaddedLines(RawLines, 1)) }

\* respacing a line changes neither the field it is matched to nor what the
\* pass of the loop on it does
RespacedLineSame ==
    (pc = "scan" /\ i <= Len(lines)) =>
        \A lead \in Paddings, mid \in Paddings, trail \in Paddings :
            LET respaced == Respace(lines[i], lead, mid, trail)
            IN  /\ MatchedField(Strip(respaced)) = MatchedField(Strip(lines[i]))
                /\ ScanStep(analysis, respaced) = ScanStep(analysis, lines[i])

\* the returned fields fs are those of the respaced texts
ResultRespaced(fs) ==
    pc = "done" =>
        \A text \in Respacings :
            \A f \in fs : ParseResult(text)[f] = analysis[f]

(* C9 as stated: changing the whitespace before a tagged line, after it,   *)
(* or between the colon and the value changes neither the field the line   *)
(* is matched to nor the value extracted, and whitespace-only lines have   *)
(* no effect on any tagged field.                                          *)
C9_AnyTaggedFieldUnaffected ==
    /\ RespacedLineSame
    /\ ResultRespaced(TaggedFields)

(* C9, amended: changing the whitespace before a tagged line, after it, or *)
(* between the colon and the value changes neither the field the line is   *)
(* matched to nor the value extracted from it; removing the                *)
(* whitespace-only lines or adding some changes no field of the record the *)
(* scan leaves, and no field of the result except a description the scan   *)
(* left empty, which the fallback fills from the raw text.                 *)
C9_WhitespaceInsensitive ==
    /\ RespacedLineSame
    /\ pc = "fallback_description" =>
           \A text \in Respacings : ScanAll(text) = analysis
    /\ ResultRespaced(IF DescriptionFromRawText THEN Fields \ {"description"}
                      ELSE Fields)

\* the scan is over on a text with a whitespace-only line and a tagged line
\* that has whitespace before the tag, after the colon and after the value;
\* the line's field holds the value
C9_Witness ==
    /\ pc = "fallback_description"
    /\ \E k \in DOMAIN RawLines : Trim(RawLines[k]) = <<>> /\ RawLines[k] /= <<>>
    /\ \E f \in Fields : \E k \in DOMAIN RawLines :
           LET l == RawLines[k]
           IN  /\ Carries(f, l)
               /\ l[1] \in Whitespace
               /\ l[Len(l)] \in Whitespace
               /\ l[Len(TagOf(f)) + 2] \in Whitespace
               /\ Cardinality(LinesWith(f)) = 1
               /\ ValueAt(f, Last(LinesWith(f))) /= <<>>
               /\ analysis[f] = ValueAt(f, Last(LinesWith(f)))
    /\ \A text \in Respacings : text /= response_text

\* the initial default of a field the fallback pass has no rule for
DefaultOf(f) ==
    CASE f = "disease_name" -> <<"U","n","k","n","o","w","n">>
      [] f = "confidence"   -> <<"M","e","d","i","u","m">>
      [] f = "severity"     -> <<"U","n","k","n","o","w","n">>

(* C10: at every point of the function, disease_name, confidence and       *)
(* severity hold 'Unknown', 'Medium' and 'Unknown' as long as no line      *)
(* carries their tag (the fallback pass included); a text with no tagged   *)
(* line yields these three defaults, the three fallback lists, and the     *)
(* first 200 characters of the raw text followed by '...' as description.  *)
C10_DefaultsKept ==
    /\ \A f \in IdentityFields :
           LinesWith(f) = {} => analysis[f] = DefaultOf(f)
    /\ (pc = "done" /\ TaggedFields = {}) =>
           analysis = [disease_name |-> DefaultOf("disease_name"),
                       confidence   |-> DefaultOf("confidence"),
                       description  |-> FirstChars(response_text, 200)
                                        \o <<".", ".", ".">>,
                       symptoms     |-> SymptomsFallback,
                       treatment    |-> TreatmentFallback,
                       prevention   |-> PreventionFallback,
                       severity     |-> DefaultOf("severity")]

\* the function has returned from a text of more than 200 characters none
\* of whose lines is tagged
C10_Witness ==
    /\ pc = "done"
    /\ TaggedFields = {}
    /\ Len(response_text) > 200
    /\ Len(analysis.description) = 203
    /\ analysis.disease_name = DefaultOf("disease_name")
    /\ analysis.confidence = DefaultOf("confidence")
    /\ analysis.severity = DefaultOf("severity")
    /\ analysis.symptoms = SymptomsFallback

-----------------------------------------------------------------------------
(* Several invocations of the function in progress at once, interleaved    *)
(* line by line.  Each invocation has its own locals: the argument, lines, *)
(* the loop position, the dict it builds, and its place in the body.       *)

\* number of invocations in progress
NumCalls == 2

Procs == 1..NumCalls

\* the texts the interleaved invocations are given: one tagged line, two
\* lines of one list tag, the empty text, an empty description after an
\* untagged line, two tagged scalar lines, a list tag with an empty value
ParInputs ==
    { TagDiseaseName \o <<" ", "a">>,
      TagSymptoms \o <<" ", "a", ";", "b", "\n">> \o TagSymptoms \o <<" ", "c">>,
      <<>>,
      <<"c", "\n">> \o TagDescription,
      TagDiseaseName \o <<" ", "b", "\n">> \o TagSeverity \o <<" ", "a">>,
      TagTreatment \o <<" ", ";">> }

\* the locals of an invocation that has been called with text and has not
\* yet executed a statement
Called(text) ==
    [response_text |-> text,
     lines         |-> <<>>,
     i             |-> 0,
     analysis      |-> InitialAnalysis,
     pc            |-> "start"]

\* FreshAnalysis with a fault: the dict is one object shared by the
\* invocations, so an invocation starts from what another has stored in it
FreshAnalysisShared(cs, p) ==
    IF \E q \in DOMAIN cs : q # p /\ cs[q].pc # "start"
    THEN cs[CHOOSE q \in DOMAIN cs : q # p /\ cs[q].pc # "start"].analysis
    ELSE InitialAnalysis

\* analysis = {...}: the dict literal is evaluated at each invocation p,
\* whatever the other invocations cs hold
FreshAnalysis(cs, p) == InitialAnalysis

InitPar ==
    /\ calls \in [Procs -> {Called(t) : t \in ParInputs}]
    /\ ParserIdle
    /\ ApiIdle
    /\ UiIdle

\* lines = response_text.strip().split('\n'); analysis = {...}
CallStart(p) ==
    /\ calls[p].pc = "start"
    /\ calls' = [calls EXCEPT ![p].lines = SplitLines(calls[p].response_text),
                              ![p].analysis = FreshAnalysis(calls, p),
                              ![p].i = 1,
                              ![p].pc = "scan"]
    /\ UNCHANGED <<vars, apiVars, uiVars>>

\* one iteration of `for line in lines`
CallScanLine(p) ==
    /\ calls[p].pc = "scan"
    /\ calls[p].i <= Len(calls[p].lines)
    /\ calls' = [calls EXCEPT
                    ![p].analysis = ScanStep(@, calls[p].lines[calls[p].i]),
                    ![p].i = @ + 1]
    /\ UNCHANGED <<vars, apiVars, uiVars>>

\* the for loop is exhausted
CallScanEnd(p) ==
    /\ calls[p].pc = "scan"
    /\ calls[p].i > Len(calls[p].lines)
    /\ calls' = [calls EXCEPT ![p].pc = "fallback_description"]
    /\ UNCHANGED <<vars, apiVars, uiVars>>

CallFallbackDescription(p) ==
    /\ calls[p].pc = "fallback_description"
    /\ calls' = [calls EXCEPT
                    ![p].analysis = DescriptionFallback(@, calls[p].response_text,
                                                        calls[p].lines),
                    ![p].pc = "fallback_symptoms"]
    /\ UNCHANGED <<vars, apiVars, uiVars>>

CallFallbackSymptoms(p) ==
    /\ calls[p].pc = "fallback_symptoms"
    /\ calls' = [calls EXCEPT
                    ![p].analysis = ListFallback(@, "symptoms", SymptomsFallback),
                    ![p].pc = "fallback_treatment"]
    /\ UNCHANGED <<vars, apiVars, uiVars>>

CallFallbackTreatment(p) ==
    /\ calls[p].pc = "fallback_treatment"
    /\ calls' = [calls EXCEPT
                    ![p].analysis = ListFallback(@, "treatment", TreatmentFallback),
                    ![p].pc = "fallback_prevention"]
    /\ UNCHANGED <<vars, apiVars, uiVars>>

\* the last fallback, and `return analysis`
CallFallbackPrevention(p) ==
    /\ calls[p].pc = "fallback_prevention"
    /\ calls' = [calls EXCEPT
                    ![p].analysis = ListFallback(@, "prevention", PreventionFallback),
                    ![p].pc = "done"]
    /\ UNCHANGED <<vars, apiVars, uiVars>>

NextPar ==
    \E p \in Procs :
        \/ CallStart(p)
        \/ CallScanLine(p)
        \/ CallScanEnd(p)
        \/ CallFallbackDescription(p)
        \/ CallFallbackSymptoms(p)
        \/ CallFallbackTreatment(p)
        \/ CallFallbackPrevention(p)

\* NumCalls invocations, their statements interleaved in any order
SpecPar == InitPar /\ [][NextPar]_<<vars, others>>

\* the invocations that have returned
Returned == {p \in Procs : calls[p].pc = "done"}

\* the invocations whose locals a step changes
Stepping == {p \in Procs : calls'[p] # calls[p]}

(* C11: parse_analysis_response shares no mutable state between            *)
(* invocations: when two or more invocations run interleaved line by line  *)
(* on arbitrary inputs, each returns exactly the record it returns when    *)
(* run alone on its input, two invocations on the same input return equal  *)
(* records, and no step of one invocation changes the locals of another.   *)
C11_InvocationsIndependent ==
    /\ [](\A p \in Returned :
              calls[p].analysis = ParseResult(calls[p].response_text))
    /\ [](\A p, q \in Returned :
              calls[p].response_text = calls[q].response_text
                  => calls[p].analysis = calls[q].analysis)
    /\ [][Cardinality(Stepping) = 1]_calls

\* one invocation has returned a record naming a disease while another, on
\* a different text, is in the middle of its loop with a different disease
\* name in its dict
C11_Witness ==
    \E p, q \in Procs :
        /\ p # q
        /\ calls[p].pc = "done"
        /\ calls[q].pc = "scan"
        /\ calls[q].i > 1
        /\ calls[q].i <= Len(calls[q].lines)
        /\ calls[p].response_text # calls[q].response_text
        /\ calls[p].analysis.disease_name # Unknown
        /\ calls[q].analysis.disease_name # Unknown
        /\ calls[p].analysis.disease_name # calls[q].analysis.disease_name

-----------------------------------------------------------------------------
(* analyze_leaf: the handler of POST /analyze.  The whole body is one try  *)
(* block whose `except Exception` turns what is raised inside it into a    *)
(* reply of status 500.                                                    *)

ImagePrefix == <<"i", "m", "a", "g", "e", "/">>

\* detail of the HTTPException raised for an upload that is not an image
FileMustBeImage ==
    <<"F", "i", "l", "e", " ", "m", "u", "s", "t", " ", "b", "e", " ",
      "a", "n", " ", "i", "m", "a", "g", "e", " ", "(", "J", "P", "E",
      "G", ",", " ", "P", "N", "G", ",", " ", "e", "t", "c", ".", ")">>

\* f"Error analyzing image: {str(e)}" up to str(e)
ErrorPrefix ==
    <<"E", "r", "r", "o", "r", " ", "a", "n", "a", "l", "y", "z", "i",
      "n", "g", " ", "i", "m", "a", "g", "e", ":", " ">>

\* the content types of the uploads: two image types, two others, the
\* empty type, the prefix in another case, the prefix in mid-string
ContentTypes ==
    { <<"i", "m", "a", "g", "e", "/", "p", "n", "g">>,
      <<"i", "m", "a", "g", "e", "/", "j", "p", "e", "g">>,
      <<"t", "e", "x", "t", "/", "p", "l", "a", "i", "n">>,
      <<"a", "p", "p", "l", "i", "c", "a", "t", "i", "o", "n", "/", "p", "d", "f">>,
      <<>>,
      <<"I", "m", "a", "g", "e", "/", "p", "n", "g">>,
      <<"x", "i", "m", "a", "g", "e", "/", "p", "n", "g">> }

\* what client.chat.completions.create raises when the gateway fails
GatewayErrors ==
    { [kind |-> "APIConnectionError",
       text |-> <<"C", "o", "n", "n", "e", "c", "t", "i", "o", "n", " ",
                  "e", "r", "r", "o", "r", ".">>],
      [kind |-> "APITimeoutError",
       text |-> <<"R", "e", "q", "u", "e", "s", "t", " ", "t", "i", "m",
                  "e", "d", " ", "o", "u", "t", ".">>] }

\* the replies of the gateway
ApiReplies == ParInputs

\* HTTPException(status_code=400, detail="File must be an image (JPEG, PNG, etc.)")
NotAnImage == [kind |-> "HTTPException", text |-> FileMustBeImage]

\* str(e): the message of an error of the gateway; for an HTTPException
\* "400: " and the detail, or the empty string where the class has no
\* __str__ of its own
ExcStr(e) ==
    IF e.kind = "HTTPException"
    THEN { <<"4", "0", "0", ":", " ">> \o e.text, <<>> }
    ELSE { e.text }

InitApi ==
    /\ content_type \in ContentTypes
    /\ api_pc = "validate"
    /\ gateway_called = FALSE
    /\ exc = NoException
    /\ http_status = 0
    /\ http_detail = <<>>
    /\ ParserIdle
    /\ calls = <<>>
    /\ UiIdle

\* if not file.content_type.startswith("image/"): raise HTTPException(400, ...)
Validate ==
    /\ api_pc = "validate"
    /\ IF StartsWith(content_type, ImagePrefix)
       THEN /\ api_pc' = "gateway"
            /\ UNCHANGED exc
       ELSE \* raised inside the try block: `except Exception` catches it
            /\ exc' = NotAnImage
            /\ api_pc' = "except"
    /\ UNCHANGED <<content_type, gateway_called, http_status, http_detail>>
    /\ UNCHANGED <<vars, calls, uiVars>>

\* the image is read and encoded, the gateway is called and answers:
\* response_text = chat_completion.choices[0].message.content
GatewayReplies ==
    /\ api_pc = "gateway"
    /\ gateway_called' = TRUE
    /\ \E text \in ApiReplies : response_text' = text
    /\ pc' = "start"
    /\ api_pc' = "parse"
    /\ UNCHANGED <<content_type, exc, http_status, http_detail>>
    /\ UNCHANGED <<lines, i, analysis, calls, uiVars>>

\* the gateway is called and the call raises
GatewayFails ==
    /\ api_pc = "gateway"
    /\ gateway_called' = TRUE
    /\ \E e \in GatewayErrors :
           /\ exc' = e
           /\ api_pc' = "except"
    /\ UNCHANGED <<content_type, http_status, http_detail>>
    /\ UNCHANGED <<vars, calls, uiVars>>

\* parse_analysis_response has returned: return AnalysisResponse(**analysis)
Respond ==
    /\ api_pc = "parse"
    /\ pc = "done"
    /\ http_status' = 200
    /\ api_pc' = "responded"
    /\ UNCHANGED <<content_type, gateway_called, exc, http_detail>>
    /\ UNCHANGED <<vars, calls, uiVars>>

\* except Exception as e: raise HTTPException(500, f"Error analyzing image: {str(e)}")
Except ==
    /\ api_pc = "except"
    /\ http_status' = 500
    /\ \E s \in ExcStr(exc) : http_detail' = ErrorPrefix \o s
    /\ api_pc' = "responded"
    /\ UNCHANGED <<content_type, gateway_called, exc>>
    /\ UNCHANGED <<vars, calls, uiVars>>

NextApi ==
    \/ Validate
    \/ GatewayReplies
    \/ GatewayFails
    \/ Next
    \/ Respond
    \/ Except

\* one request to POST /analyze
SpecApi == InitApi /\ [][NextApi]_<<vars, others>>

\* the upload is an image by its content type
IsImage == FirstChars(content_type, 6) = ImagePrefix

\* the extractor has been entered
ExtractorRun == pc # "idle"

(* C12: in analyze_leaf, an upload whose content type does not start with  *)
(* 'image/' is answered with HTTP status 400 and the detail 'File must be  *)
(* an image (JPEG, PNG, etc.)', the model gateway is not called and the    *)
(* extractor is not run; every other failure (gateway error, timeout) is   *)
(* answered with status 500 and a detail starting 'Error analyzing image:'.*)
C12_NonImageRejected ==
    /\ ~IsImage => ~gateway_called /\ ~ExtractorRun
    /\ (api_pc = "responded" /\ ~IsImage) =>
           /\ http_status = 400
           /\ http_detail = FileMustBeImage
    /\ (api_pc = "responded" /\ exc \in GatewayErrors) =>
           /\ http_status = 500
           /\ FirstChars(http_detail, 22)
                  = <<"E", "r", "r", "o", "r", " ", "a", "n", "a", "l", "y",
                      "z", "i", "n", "g", " ", "i", "m", "a", "g", "e", ":">>

-----------------------------------------------------------------------------
(* The session of the web page (app.py).  Each run of the script handles   *)
(* at most one pressed button: Analyze Leaf or Clear History.  A timestamp *)
(* (datetime.now().isoformat() on the server) is modelled by the number of *)
(* the request it answers.                                                 *)

\* the requests one session sends
MaxAnalyses == 3

\* the gateway replies behind the successful analyses: a disease, another
\* disease with a severity, no tagged line at all
UiReplies ==
    { TagDiseaseName \o <<" ", "a">>,
      TagDiseaseName \o <<" ", "b", "\n">> \o TagSeverity \o <<" ", "a">>,
      <<"c">> }

\* analysis["timestamp"] = ...; AnalysisResponse(**analysis)
AnalysisResponse(a, ts) ==
    [disease_name |-> a.disease_name,
     confidence   |-> a.confidence,
     description  |-> a.description,
     symptoms     |-> a.symptoms,
     treatment    |-> a.treatment,
     prevention   |-> a.prevention,
     severity     |-> a.severity,
     timestamp    |-> ts]

\* what requests.post comes to for the request number ts: a reply of
\* status 200 with an analysis, a reply of another status (whose body is
\* only displayed), no reply within the timeout, no connection
Responses(ts) ==
    { [kind |-> "reply", status |-> 200,
       body |-> <<AnalysisResponse(ParseResult(t), ts)>>] : t \in UiReplies }
    \cup { [kind |-> "reply", status |-> st, body |-> <<>>] : st \in {500, 503} }
    \cup { [kind |-> k, status |-> 0, body |-> <<>>]
           : k \in {"Timeout", "ConnectionError"} }

\* analyze_image: response.json() for a reply of status 200, else None
AnalyzeImage(resp) ==
    IF resp.kind = "reply" /\ resp.status = 200 THEN resp.body ELSE <<>>

\* the dict appended to the history for the analysis r
HistoryEntry(r) ==
    [timestamp |-> r.timestamp,
     disease   |-> r.disease_name,
     severity  |-> r.severity]

\* RecordResult with a fault: the entry is put in front
RecordResultFirst(h, r) == <<HistoryEntry(r)>> \o h

\* st.session_state.analysis_history.append({...})
RecordResult(h, r) == Append(h, HistoryEntry(r))

\* if 'analysis_history' not in st.session_state: ... = []
InitUi ==
    /\ analysis_history = <<>>
    /\ current_result = <<>>
    /\ clicked = "none"
    /\ response = NoResponse
    /\ result = <<>>
    /\ now = 0
    /\ ParserIdle
    /\ calls = <<>>
    /\ ApiIdle

\* the Analyze Leaf button: result = analyze_image(uploaded_file);
\* if result: current_result = result; analysis_history.append({...})
Analyze ==
    /\ now < MaxAnalyses
    /\ now' = now + 1
    /\ clicked' = "analyze"
    /\ \E resp \in Responses(now + 1) :
           LET r == AnalyzeImage(resp)
           IN  /\ response' = resp
               /\ result' = r
               /\ IF r # <<>>
                  THEN /\ current_result' = r
                       /\ analysis_history' = RecordResult(analysis_history, r[1])
                  ELSE UNCHANGED <<current_result, analysis_history>>
    /\ UNCHANGED <<vars, calls, apiVars>>

\* the Clear History button, shown while the history is not empty
ClearHistory ==
    /\ analysis_history # <<>>
    /\ clicked' = "clear"
    /\ analysis_history' = <<>>
    /\ UNCHANGED <<current_result, response, result, now>>
    /\ UNCHANGED <<vars, calls, apiVars>>

NextUi ==
    \/ Analyze
    \/ ClearHistory

\* one session of the page
SpecUi == InitUi /\ [][NextUi]_<<vars, others>>

\* the last request was answered with status 200
Succeeded == response.kind = "reply" /\ response.status = 200

\* the last request failed: a reply of another status, a timeout, or a
\* connection error
Failed == response.kind # "none" /\ ~Succeeded

\* what a run of the script that handles a pressed button does to the
\* session
ButtonStep ==
    /\ (clicked' = "analyze" /\ Succeeded') =>
           /\ Len(response'.body) = 1
           /\ current_result' = response'.body
           /\ analysis_history' =
                  analysis_history
                  \o << [timestamp |-> response'.body[1].timestamp,
                         disease   |-> response'.body[1].disease_name,
                         severity  |-> response'.body[1].severity] >>
    /\ (clicked' = "analyze" /\ Failed') =>
           UNCHANGED <<analysis_history, current_result>>
    /\ (clicked' = "clear") =>
           /\ analysis_history' = <<>>
           /\ UNCHANGED current_result

\* the entries are in the order their analyses completed
InCompletionOrder ==
    \A j, k \in DOMAIN analysis_history :
        j < k => analysis_history[j].timestamp < analysis_history[k].timestamp

(* C13: in the UI session, after any sequence of analyze and clear-history *)
(* actions, analysis_history holds exactly one entry (timestamp, disease,  *)
(* severity of the returned record) per successful analysis since the     *)
(* last clear, in the order the analyses completed; an analysis that fails *)
(* (non-200 reply, timeout, connection error) leaves both analysis_history *)
(* and current_result unchanged, and Clear History empties the list.       *)
C13_HistoryTracksAnalyses ==
    /\ [][ButtonStep]_uiVars
    /\ []InCompletionOrder
    /\ [](clicked = "clear" => analysis_history = <<>>)
    /\ [](clicked = "none" => analysis_history = <<>> /\ current_result = <<>>)

\* two analyses have succeeded, of different diseases, and a third has
\* just failed: the history holds the two entries, in their order
C13_Witness ==
    /\ clicked = "analyze"
    /\ Failed
    /\ result = <<>>
    /\ Len(analysis_history) = 2
    /\ analysis_history[1].timestamp < analysis_history[2].timestamp
    /\ analysis_history[1].disease # analysis_history[2].disease
    /\ current_result # <<>>
    /\ current_result[1].timestamp = analysis_history[2].timestamp

====
